---- MODULE Spec2Model ----
(***************************************************************************)
(* SupplyChainAI (src/decision_engine.py): the dataset loader with its     *)
(* fallback cascade, the risk model, the query classifier, the             *)
(* recommendation generator with its three tiers, the risk-bucket          *)
(* aggregation and analyze_situation, which composes them.                 *)
(*                                                                         *)
(* Numbers are exact rationals <<n, d>> (d > 0, lowest terms) in place of  *)
(* the floats of the program; strings that the code inspects character by  *)
(* character (the query, the manual) are sequences of one-character        *)
(* strings, and generated texts are sequences of non-empty chunks (the     *)
(* empty text is << >>).                                                   *)
(***************************************************************************)
EXTENDS Integers, Sequences, FiniteSets, TLC

VARIABLES api_key, supply_data, manual_text, branch, pc, result, netlog

vars == <<api_key, supply_data, manual_text, branch, pc, result, netlog>>

(***************************************************************************)
(* Bounds of the model.                                                    *)
(***************************************************************************)
\* Remote bodies have 0..MaxSmallRows data rows, or HeadLimit + 1 of them.
MaxSmallRows == 2
\* The number of distinct streams the unseeded random generator may give.
RngStreams == 2

(***************************************************************************)
(* Rationals.                                                              *)
(***************************************************************************)
Abs(x) == IF x < 0 THEN -x ELSE x

RECURSIVE GCD(_, _)
GCD(a, b) == IF b = 0 THEN a ELSE GCD(b, a % b)

\* n/d in lowest terms with a positive denominator (d # 0).
Rat(n, d) ==
    LET g == GCD(Abs(n), Abs(d))
        s == IF d < 0 THEN -1 ELSE 1
    IN  <<(s * n) \div g, (s * d) \div g>>

RInt(n) == <<n, 1>>
RAdd(x, y) == Rat(x[1] * y[2] + y[1] * x[2], x[2] * y[2])
RSub(x, y) == Rat(x[1] * y[2] - y[1] * x[2], x[2] * y[2])
RMul(x, y) == Rat(x[1] * y[1], x[2] * y[2])
\* y is not zero
RDiv(x, y) == Rat(x[1] * y[2], x[2] * y[1])
RLt(x, y) == x[1] * y[2] < y[1] * x[2]
RLe(x, y) == x[1] * y[2] <= y[1] * x[2]

(***************************************************************************)
(* Cells of a table: a number, a string or a missing value (NaN).          *)
(***************************************************************************)
Num(n, d) == [t |-> "num", v |-> Rat(n, d), s |-> ""]
NumR(r) == [t |-> "num", v |-> r, s |-> ""]
Str(x) == [t |-> "str", v |-> <<0, 1>>, s |-> x]
Null == [t |-> "null", v |-> <<0, 1>>, s |-> ""]

IsNum(c) == c.t = "num"

(***************************************************************************)
(* A table (DataFrame): its columns and its rows, each row a function from *)
(* the columns to cells.  NoData is Python's None.                         *)
(***************************************************************************)
NoData == [isNone |-> TRUE, cols |-> {}, rows |-> <<>>]
Frame(cols, rows) == [isNone |-> FALSE, cols |-> cols, rows |-> rows]

\* Whether every cell of column col is a number (an arithmetic operation or
\* a comparison with a number on the column raises TypeError otherwise).
NumericCol(df, col) == \A i \in 1..Len(df.rows) : IsNum(df.rows[i][col])

\* df[cols].head(n)
HeadRows(rows, n) == IF Len(rows) <= n THEN rows ELSE SubSeq(rows, 1, n)
Project(rows, cols) == [i \in 1..Len(rows) |-> [c \in cols |-> rows[i][c]]]

\* The sum of column col over rows lo..hi, by halves.
RECURSIVE SumCol(_, _, _, _)
SumCol(rows, col, lo, hi) ==
    IF hi < lo THEN <<0, 1>>
    ELSE IF lo = hi THEN rows[lo][col].v
    ELSE LET mid == (lo + hi) \div 2
         IN  RAdd(SumCol(rows, col, lo, mid), SumCol(rows, col, mid + 1, hi))

\* Series.mean(): NaN (Null) on an empty column.
MeanCol(rows, col) ==
    IF Len(rows) = 0 THEN Null
    ELSE NumR(RDiv(SumCol(rows, col, 1, Len(rows)), RInt(Len(rows))))

(***************************************************************************)
(* Remote CSV bodies.  A body has a header (its columns) and data rows;    *)
(* row i of a body is the table's row kind at (i - 1) modulo its length, cut to the  *)
(* body's columns.                                                         *)
(***************************************************************************)
RawCols == {"Supplier", "Product", "Location", "Current_Stock", "Min_Stock",
            "Lead_Time_Days", "Cost_Per_Unit", "Quality_Rating", "Last_Delivery"}
RiskCols == {"Stock_Risk", "Lead_Time_Risk", "Quality_Risk", "Overall_Risk"}
DataCoCols == {"Product Name", "Customer Country", "Order Item Quantity",
               "Days for shipping (real)", "Product Price", "Late_delivery_risk",
               "Category Name"}

Schemas == {"canonical_full", "risk_only", "dataco", "dataco_risk", "marker_only",
            "dataco_bad", "other"}

SchemaCols(schema) ==
    CASE schema = "canonical_full" -> RawCols \cup RiskCols
      [] schema = "risk_only"      -> {"Overall_Risk"}
      [] schema = "dataco"         -> DataCoCols
      [] schema = "dataco_risk"    -> DataCoCols \cup {"Stock_Risk", "Overall_Risk"}
      [] schema = "marker_only"    -> {"Product Name"}
      [] schema = "dataco_bad"     -> DataCoCols
      [] schema = "other"          -> {"State"}

KindTable ==
    [c \in RawCols \cup RiskCols \cup DataCoCols \cup {"State"} |->
        CASE c = "Supplier"       -> <<Str("TechCorp Mexico"), Str("EliteParts USA"), Str("AsiaTech")>>
          [] c = "Product"        -> <<Str("Industrial Relay"), Str("Circuit Breaker"), Str("Motor Drive")>>
          [] c = "Location"       -> <<Str("Mexico City"), Str("Dallas TX"), Str("Shanghai")>>
          [] c = "Current_Stock"  -> <<Num(10, 1), Num(300, 1), Num(40, 1)>>
          [] c = "Min_Stock"      -> <<Num(100, 1), Num(50, 1), Num(50, 1)>>
          [] c = "Lead_Time_Days" -> <<Num(30, 1), Num(10, 1), Num(21, 1)>>
          [] c = "Cost_Per_Unit"  -> <<Num(25, 2), Num(499, 1), Num(10, 1)>>
          [] c = "Quality_Rating" -> <<Num(7, 2), Num(9, 2), Num(4, 1)>>
          [] c = "Last_Delivery"  -> <<Str("Delayed"), Str("On Time"), Str("Early")>>
          \* risk columns a remote body may itself carry
          [] c = "Stock_Risk"     -> <<Num(9, 10), Num(0, 1), Num(1, 5)>>
          [] c = "Lead_Time_Risk" -> <<Num(1, 1), Num(1, 5), Num(16, 25)>>
          [] c = "Quality_Risk"   -> <<Num(3, 4), Num(1, 4), Num(1, 2)>>
          [] c = "Overall_Risk"   -> <<Num(3, 10), Num(6, 10), Num(0, 1)>>
          \* the DataCo columns
          [] c = "Product Name"             -> <<Str("Industrial Relay"), Str("Circuit Breaker"), Str("Motor Drive")>>
          [] c = "Customer Country"         -> <<Str("Mexico"), Str("EE. UU."), Str("China")>>
          [] c = "Order Item Quantity"      -> <<Num(1, 1), Num(5, 1), Num(0, 1)>>
          [] c = "Days for shipping (real)" -> <<Num(25, 1), Num(35, 1), Num(2, 1)>>
          [] c = "Product Price"            -> <<Num(100, 1), Num(50, 1), Num(10, 1)>>
          [] c = "Late_delivery_risk"       -> <<Num(1, 1), Num(1, 1), Num(0, 1)>>
          [] c = "Category Name"            -> <<Str("Technology"), Str("Sporting Goods"), Null>>
          [] c = "State"                    -> <<Str("CA"), Str("TX"), Str("NY")>>]

KindCell(schema, c, i) ==
    IF schema = "dataco_bad" /\ c = "Order Item Quantity" THEN Str("n/a")
    ELSE KindTable[c][((i - 1) % Len(KindTable[c])) + 1]

\* The table pd.read_csv gives for the body of `schema` with n data rows.
Body(schema, n) ==
    Frame(SchemaCols(schema),
          [i \in 1..n |-> [c \in SchemaCols(schema) |-> KindCell(schema, c, i)]])

(***************************************************************************)
(* Constants of the program.                                               *)
(***************************************************************************)
HeadLimit == 200
n_records == 200
ManualCut == 500
TopItems == 5
TopSuppliers == 8

\* What a remote source may answer: no answer (a network error or a timeout),
\* a status other than 200, or 200 with a body that parses or does not.
BodyIds ==
    {[schema |-> s, n |-> n] : s \in Schemas, n \in 0..MaxSmallRows}
    \cup {[schema |-> s, n |-> HeadLimit + 1] : s \in {"canonical_full", "dataco"}}

Responses ==
    {[kind |-> "network_error", status |-> 0, parsable |-> FALSE, body |-> [schema |-> "other", n |-> 0]],
     [kind |-> "timeout", status |-> 0, parsable |-> FALSE, body |-> [schema |-> "other", n |-> 0]],
     [kind |-> "http", status |-> 404, parsable |-> FALSE, body |-> [schema |-> "other", n |-> 0]],
     [kind |-> "http", status |-> 200, parsable |-> FALSE, body |-> [schema |-> "other", n |-> 0]]}
    \cup {[kind |-> "http", status |-> 200, parsable |-> TRUE, body |-> b] : b \in BodyIds}

(***************************************************************************)
(* The risk model (lines 103-111 and 164-168).  np.where computes both     *)
(* branches and keeps one: the quotient is kept only when Current_Stock <  *)
(* Min_Stock.                                                              *)
(***************************************************************************)
\* The quotient without the selection of np.where.
StockRiskUnguarded(cur, min) ==
    IF min[1] = 0 THEN <<0, 1>> ELSE RDiv(RSub(min, cur), min)

StockRisk(cur, min) ==
    IF RLt(cur, min) THEN RDiv(RSub(min, cur), min) ELSE <<0, 1>>

LeadTimeRisk(days, divisor) == RDiv(RSub(days, RInt(5)), RInt(divisor))

QualityRisk(rating) == RDiv(RSub(RInt(5), rating), RInt(2))

OverallRisk(s, l, q) == RDiv(RAdd(RAdd(s, l), q), RInt(3))

\* The four derived columns of a row whose raw columns are set.
WithRisk(row, divisor) ==
    LET s == StockRisk(row["Current_Stock"].v, row["Min_Stock"].v)
        l == LeadTimeRisk(row["Lead_Time_Days"].v, divisor)
        q == QualityRisk(row["Quality_Rating"].v)
    IN  [c \in DOMAIN row \cup RiskCols |->
            CASE c = "Stock_Risk"     -> NumR(s)
              [] c = "Lead_Time_Risk" -> NumR(l)
              [] c = "Quality_Risk"   -> NumR(q)
              [] c = "Overall_Risk"   -> NumR(OverallRisk(s, l, q))
              [] OTHER                -> row[c]]

(***************************************************************************)
(* The random draws of the source-B branch (lines 82, 85, 96, 99): the     *)
(* generator is not seeded there, so a load draws one of RngStreams        *)
(* streams; draw i of stream r is entry (r + i) of a table of values of    *)
(* the range the code names.                                               *)
(***************************************************************************)
Draw(table, r, i) == table[((r + i) % Len(table)) + 1]

StockDraws == <<Num(50, 1), Num(499, 1), Num(120, 1)>>
LeadDraws == <<Num(5, 1), Num(29, 1), Num(15, 1)>>
QualityDraws == <<Num(7, 2), Num(9, 2), Num(4, 1)>>
DeliveryDraws == <<Str("On Time"), Str("Delayed"), Str("Early")>>

(***************************************************************************)
(* Source B: the processing of the DataCo table (lines 47-119).            *)
(***************************************************************************)
column_mapping ==
    [c \in {"Product Name", "Customer Country", "Order Item Quantity",
            "Days for shipping (real)", "Product Price", "Late_delivery_risk"} |->
        CASE c = "Product Name"             -> "Product"
          [] c = "Customer Country"         -> "Location"
          [] c = "Order Item Quantity"      -> "Current_Stock"
          [] c = "Days for shipping (real)" -> "Lead_Time_Days"
          [] c = "Product Price"            -> "Cost_Per_Unit"
          [] c = "Late_delivery_risk"       -> "Late_Delivery_Risk"]

\* lines 61-63: rename the columns that exist
RenamedCols(cols) ==
    {IF c \in DOMAIN column_mapping THEN column_mapping[c] ELSE c : c \in cols}

RenamedRow(row) ==
    [c \in RenamedCols(DOMAIN row) |->
        IF c \in DOMAIN row THEN row[c]
        ELSE row[CHOOSE o \in DOMAIN column_mapping : o \in DOMAIN row /\ column_mapping[o] = c]]

\* lines 66-78
supplier_mapping(category) ==
    CASE category = "Technology"  -> "TechCorp Global"
      [] category = "Electronics" -> "EliteElectronics"
      [] category = "Industrial"  -> "GlobalManufacturing"
      [] category = "Hardware"    -> "IndustrialParts Inc"
      [] category = "Software"    -> "SoftwareSolutions"
      [] OTHER                    -> "Generic Supplier"

SupplierOf(row) ==
    IF "Category Name" \in DOMAIN row
    THEN IF row["Category Name"].t = "null" THEN Str("Unknown Supplier")
         ELSE Str(supplier_mapping(row["Category Name"].s))
    ELSE Str("Global Supplier Network")

\* lines 93-94: 5.0 - 2 * risk, clipped to [3.0, 5.0]
Clip(x, lo, hi) == IF RLt(x, lo) THEN lo ELSE IF RLt(hi, x) THEN hi ELSE x

QualityFromLate(late) == Clip(RSub(RInt(5), RMul(late, RInt(2))), RInt(3), RInt(5))

\* lines 65-100: the raw columns of row i, drawn from stream r where missing
\* A minimum stock that does not follow the current stock.
MinStockFixed(cur) == <<50, 1>>

\* line 88: Min_Stock = Current_Stock * 0.3
MinStockOf(cur) == RMul(cur, <<3, 10>>)

RawRow(row0, r, i) ==
    LET row  == RenamedRow(row0)
        cur  == IF "Current_Stock" \in DOMAIN row THEN row["Current_Stock"]
                ELSE Draw(StockDraws, r, i)
        lead == IF "Lead_Time_Days" \in DOMAIN row THEN row["Lead_Time_Days"]
                ELSE Draw(LeadDraws, r, i)
        qual == IF "Late_Delivery_Risk" \in DOMAIN row
                THEN NumR(QualityFromLate(row["Late_Delivery_Risk"].v))
                ELSE Draw(QualityDraws, r, i)
    IN  [c \in DOMAIN row \cup {"Supplier", "Current_Stock", "Lead_Time_Days",
                                "Min_Stock", "Quality_Rating", "Last_Delivery"} |->
            CASE c = "Supplier"       -> SupplierOf(row)
              [] c = "Current_Stock"  -> cur
              [] c = "Lead_Time_Days" -> lead
              [] c = "Min_Stock"      -> NumR(MinStockOf(cur.v))
              [] c = "Quality_Rating" -> qual
              [] c = "Last_Delivery"  -> Draw(DeliveryDraws, r, i)
              [] OTHER                -> row[c]]

final_columns == RawCols \cup RiskCols

\* Arithmetic on a column that holds a string raises TypeError (lines 88, 93, 109).
ProcessingRaises(df) ==
    \E c \in {"Order Item Quantity", "Days for shipping (real)", "Late_delivery_risk"} :
        c \in df.cols /\ ~NumericCol(df, c)

\* lines 48-119 on the parsed table df, which has the marker column
ProcessDataCo(df, r) ==
    LET rows == [i \in 1..Len(df.rows) |-> WithRisk(RawRow(df.rows[i], r, i), 25)]
        cols == RenamedCols(df.cols)
                  \cup {"Supplier", "Current_Stock", "Lead_Time_Days", "Min_Stock",
                        "Quality_Rating", "Last_Delivery"} \cup RiskCols
        available_columns == final_columns \cap cols
    IN  Frame(available_columns, HeadRows(Project(rows, available_columns), HeadLimit))

(***************************************************************************)
(* _create_synthetic_data (lines 139-170).  The seed is fixed (line 141),  *)
(* so the draws are one fixed stream; draw i of each column is a fixed     *)
(* function of i with values in the range the code names.                  *)
(***************************************************************************)
suppliers == <<"TechCorp Mexico", "EliteParts USA", "GlobalManufacturing", "AsiaTech", "EuroParts">>
products == <<"Industrial Relay", "Circuit Breaker", "Motor Drive", "Control Panel", "Power Supply">>
locations == <<"Mexico City", "Dallas TX", "Shanghai", "Mumbai", "Frankfurt">>
MinStockDraws == <<50, 60, 75, 100, 120, 150>>

SyntheticRaw(i) ==
    [c \in RawCols |->
        CASE c = "Supplier"       -> Str(suppliers[((i * 3) % 5) + 1])
          [] c = "Product"        -> Str(products[((i * 7) % 5) + 1])
          [] c = "Location"       -> Str(locations[(i % 5) + 1])
          [] c = "Current_Stock"  -> Num(10 + ((i * 37) % 490), 1)
          [] c = "Min_Stock"      -> Num(MinStockDraws[((i * 5) % 6) + 1], 1)
          [] c = "Lead_Time_Days" -> Num(5 + ((i * 7) % 40), 1)
          [] c = "Cost_Per_Unit"  -> Num(10 + ((i * 13) % 490), 1)
          [] c = "Quality_Rating" -> Num(30 + ((i * 3) % 20), 10)
          [] c = "Last_Delivery"  -> DeliveryDraws[IF i % 10 < 7 THEN 1 ELSE IF i % 10 < 9 THEN 2 ELSE 3]]

\* The generated table without the risk scores of lines 164-168.
SyntheticDataUnscored ==
    Frame(RawCols, [i \in 1..n_records |-> SyntheticRaw(i)])

SyntheticData ==
    Frame(RawCols \cup RiskCols, [i \in 1..n_records |-> WithRisk(SyntheticRaw(i), 40)])

(***************************************************************************)
(* Strings read character by character: str.lower() and the `in` test.     *)
(***************************************************************************)
UpperCase == <<"A", "B", "C", "D", "E", "F", "G", "H", "I", "J", "K", "L", "M",
               "N", "O", "P", "Q", "R", "S", "T", "U", "V", "W", "X", "Y", "Z">>
LowerCase == <<"a", "b", "c", "d", "e", "f", "g", "h", "i", "j", "k", "l", "m",
               "n", "o", "p", "q", "r", "s", "t", "u", "v", "w", "x", "y", "z">>

LowerChar(ch) ==
    IF \E k \in 1..Len(UpperCase) : UpperCase[k] = ch
    THEN LowerCase[CHOOSE k \in 1..Len(UpperCase) : UpperCase[k] = ch]
    ELSE ch

Lower(str) == [i \in 1..Len(str) |-> LowerChar(str[i])]

\* sub in str
Contains(str, sub) ==
    \E i \in 1..(Len(str) - Len(sub) + 1) : SubSeq(str, i, i + Len(sub) - 1) = sub

KwStock == <<"s", "t", "o", "c", "k">>
KwInventory == <<"i", "n", "v", "e", "n", "t", "o", "r", "y">>
KwQuality == <<"q", "u", "a", "l", "i", "t", "y">>
KwDelay == <<"d", "e", "l", "a", "y">>
KwLeadTime == <<"l", "e", "a", "d", " ", "t", "i", "m", "e">>

\* The queries analyze_situation is called with.
Q_StockQuality == <<"s", "t", "o", "c", "k", " ", "l", "e", "v", "e", "l", "s", " ", "a", "n", "d", " ", "q", "u", "a", "l", "i", "t", "y", " ", "i", "s", "s", "u", "e", "s">>
Q_InventoryDelay == <<"I", "N", "V", "E", "N", "T", "O", "R", "Y", " ", "d", "e", "l", "a", "y">>
Q_QualityLeadTime == <<"Q", "u", "a", "l", "i", "t", "y", " ", "o", "r", " ", "l", "e", "a", "d", " ", "t", "i", "m", "e">>
Q_Delay == <<"D", "e", "l", "a", "y", "s", "?">>
Q_LeadTime == <<"l", "e", "a", "d", " ", "t", "i", "m", "e">>
Q_LeadDashTime == <<"L", "e", "a", "d", "-", "t", "i", "m", "e">>
Q_Other == <<"r", "i", "s", "k", " ", "o", "v", "e", "r", "v", "i", "e", "w">>

Queries == {Q_StockQuality, Q_InventoryDelay, Q_QualityLeadTime, Q_Delay, Q_LeadTime,
            Q_LeadDashTime, Q_Other}

Languages == {"English", "Español"}

(***************************************************************************)
(* _analyze_data (lines 225-258).                                          *)
(***************************************************************************)
\* FocusArea with the quality rule tried before the stock rule.
FocusAreaQualityFirst(query) ==
    LET query_lower == Lower(query)
    IN  IF Contains(query_lower, KwQuality) THEN "Quality Issues"
        ELSE IF Contains(query_lower, KwStock) \/ Contains(query_lower, KwInventory)
        THEN "Stock Levels"
        ELSE IF Contains(query_lower, KwDelay) \/ Contains(query_lower, KwLeadTime)
        THEN "Lead Time Issues"
        ELSE "Overall Risk"

\* lines 233-244: the focus area of a query
FocusArea(query) ==
    LET query_lower == Lower(query)
    IN  IF Contains(query_lower, KwStock) \/ Contains(query_lower, KwInventory)
        THEN "Stock Levels"
        ELSE IF Contains(query_lower, KwQuality) THEN "Quality Issues"
        ELSE IF Contains(query_lower, KwDelay) \/ Contains(query_lower, KwLeadTime)
        THEN "Lead Time Issues"
        ELSE "Overall Risk"

\* df[df[col] > bound], df[df[col] < bound]
RowsAbove(rows, col, bound) == SelectSeq(rows, LAMBDA r : RLt(bound, r[col].v))
RowsBelow(rows, col, bound) == SelectSeq(rows, LAMBDA r : RLt(r[col].v, bound))

\* lines 230-231
HighRisk(df) == RowsAbove(df.rows, "Overall_Risk", <<6, 10>>)
CriticalStock(df) ==
    IF "Stock_Risk" \in df.cols THEN RowsAbove(df.rows, "Stock_Risk", <<1, 2>>) ELSE <<>>

\* lines 233-244: the rows the focus area selects
FocusData(df, high_risk, critical_stock, focus_area) ==
    CASE focus_area = "Stock Levels" ->
            IF critical_stock # <<>> THEN critical_stock ELSE high_risk
      [] focus_area = "Quality Issues" ->
            IF "Quality_Rating" \in df.cols
            THEN RowsBelow(df.rows, "Quality_Rating", <<4, 1>>) ELSE high_risk
      [] focus_area = "Lead Time Issues" ->
            IF "Lead_Time_Days" \in df.cols
            THEN RowsAbove(df.rows, "Lead_Time_Days", <<20, 1>>) ELSE high_risk
      [] OTHER -> high_risk

\* The exception _analyze_data raises on df, "" when it raises none: indexing
\* a column the table lacks is a KeyError, comparing or averaging a column of
\* strings a TypeError.
AnalyzeDataRaises(df) ==
    IF df.isNone THEN "TypeError"
    ELSE IF "Overall_Risk" \notin df.cols THEN "KeyError"
    ELSE IF \E c \in {"Overall_Risk", "Stock_Risk", "Quality_Rating", "Lead_Time_Days"} :
                c \in df.cols /\ ~NumericCol(df, c)
    THEN "TypeError"
    ELSE ""

NoAnalysis ==
    [focus_area |-> "", total_items |-> 0, high_risk_count |-> 0,
     critical_stock_count |-> 0, avg_lead_time |-> Null, avg_quality |-> Null,
     focus_items |-> <<>>]

\* AnalyzeData with the two counts taken over the focus rows only.
AnalyzeDataFocusCounts(df, query) ==
    LET focus_area == FocusArea(query)
        focus_data == FocusData(df, HighRisk(df), CriticalStock(df), focus_area)
        focus_cols == {"Supplier", "Product", "Overall_Risk"} \cap df.cols
    IN  [focus_area |-> focus_area,
         total_items |-> Len(df.rows),
         high_risk_count |-> Len(RowsAbove(focus_data, "Overall_Risk", <<6, 10>>)),
         critical_stock_count |-> IF "Stock_Risk" \in df.cols
                                  THEN Len(RowsAbove(focus_data, "Stock_Risk", <<1, 2>>))
                                  ELSE 0,
         avg_lead_time |-> IF "Lead_Time_Days" \in df.cols
                           THEN MeanCol(df.rows, "Lead_Time_Days") ELSE Num(15, 1),
         avg_quality |-> IF "Quality_Rating" \in df.cols
                         THEN MeanCol(df.rows, "Quality_Rating") ELSE Num(42, 10),
         focus_items |-> IF focus_cols # {}
                         THEN Project(HeadRows(focus_data, TopItems), focus_cols) ELSE <<>>]

\* lines 246-258, for a table on which _analyze_data does not raise
AnalyzeData(df, query) ==
    LET high_risk == HighRisk(df)
        critical_stock == CriticalStock(df)
        focus_area == FocusArea(query)
        focus_data == FocusData(df, high_risk, critical_stock, focus_area)
        focus_cols == {"Supplier", "Product", "Overall_Risk"} \cap df.cols
    IN  [focus_area |-> focus_area,
         total_items |-> Len(df.rows),
         high_risk_count |-> Len(high_risk),
         critical_stock_count |-> IF critical_stock # <<>> THEN Len(critical_stock) ELSE 0,
         avg_lead_time |-> IF "Lead_Time_Days" \in df.cols
                           THEN MeanCol(df.rows, "Lead_Time_Days") ELSE Num(15, 1),
         avg_quality |-> IF "Quality_Rating" \in df.cols
                         THEN MeanCol(df.rows, "Quality_Rating") ELSE Num(42, 10),
         focus_items |-> IF focus_cols # {}
                         THEN Project(HeadRows(focus_data, TopItems), focus_cols) ELSE <<>>]

(***************************************************************************)
(* _get_ai_recommendation (lines 260-304).                                 *)
(***************************************************************************)
RECURSIVE Pow10(_)
Pow10(k) == IF k = 0 THEN 1 ELSE 10 * Pow10(k - 1)

\* format(x, ".<places>f"): x rounded to `places` decimals, ties to even; NaN
\* formats as "nan".
Fmt(cell, places) ==
    IF cell.t # "num" THEN Null
    ELSE LET n  == cell.v[1] * Pow10(places)
             d  == cell.v[2]
             q  == n \div d
             r2 == 2 * (n - q * d)
             up == r2 > d \/ (r2 = d /\ q % 2 = 1)
         IN  Num(IF up THEN q + 1 ELSE q, Pow10(places))

\* item.get(key, default)
ItemGet(item, key, default) == IF key \in DOMAIN item THEN item[key] ELSE default

NoPrompt ==
    [total_items |-> 0, high_risk_count |-> 0, focus_area |-> "", avg_lead_time |-> Null,
     avg_quality |-> Null, items |-> <<>>, manual |-> <<>>, query |-> <<>>,
     directive |-> "", max_tokens |-> 0]

\* lines 262-288: the parts the prompt is made of
BuildPrompt(query, analysis, language, manual) ==
    [total_items |-> analysis.total_items,
     high_risk_count |-> analysis.high_risk_count,
     focus_area |-> analysis.focus_area,
     avg_lead_time |-> Fmt(analysis.avg_lead_time, 1),
     avg_quality |-> Fmt(analysis.avg_quality, 1),
     items |-> [i \in 1..Len(analysis.focus_items) |->
                  [Product |-> ItemGet(analysis.focus_items[i], "Product", Str("Product")),
                   Supplier |-> ItemGet(analysis.focus_items[i], "Supplier", Str("Supplier")),
                   Risk |-> Fmt(ItemGet(analysis.focus_items[i], "Overall_Risk", Num(0, 1)), 2)]],
     manual |-> HeadRows(manual, ManualCut),
     query |-> query,
     directive |-> IF language = "Español" THEN "Respond in Spanish" ELSE "Respond in English",
     max_tokens |-> 120]

\* lines 299-302
HighTemplate(focus_area) ==
    <<"**RECOMMENDATION:** Address ", focus_area, " issues immediately",
      "\n**PRIORITY:** High",
      "\n**EXPECTED IMPACT:** Reduce supply chain disruption by 25%",
      "\n**NEXT STEPS:** 1) Contact alternative suppliers 2) Review safety stock levels">>

\* line 304
MediumTemplate ==
    <<"**RECOMMENDATION:** Review supplier performance data",
      "\n**PRIORITY:** Medium",
      "\n**EXPECTED IMPACT:** Improved supply chain reliability",
      "\n**NEXT STEPS:** 1) Analyze trends 2) Contact suppliers">>

\* What the recommendation service may do with a request: raise (a timeout,
\* an authentication or a network error), answer with no text block (reading
\* content[0].text raises), or answer with a text, which may be empty.
ServiceOutcomes ==
    {[kind |-> "raises", text |-> <<>>],
     [kind |-> "malformed", text |-> <<>>],
     [kind |-> "ok", text |-> <<>>],
     [kind |-> "ok", text |-> <<"Activate the alternative supplier within 48 hours">>]}

NotCalled == [kind |-> "not_called", text |-> <<>>]

\* The except clause letting the error through.
RecommendationReraise == [status |-> "raised", text |-> <<>>]

\* lines 303-304: the except clause
RecommendationExcept == [status |-> "returned", text |-> MediumTemplate]

\* GetAiRecommendation with the two templates exchanged.
GetAiRecommendationSwapped(key, analysis, outcome) ==
    IF key # ""
    THEN IF outcome.kind = "ok"
         THEN [status |-> "returned", text |-> outcome.text]
         ELSE [status |-> "returned", text |-> HighTemplate(analysis.focus_area)]
    ELSE [status |-> "returned", text |-> MediumTemplate]

\* lines 290-304: the text returned, given what the service does when called
GetAiRecommendation(key, analysis, outcome) ==
    IF key # ""
    THEN IF outcome.kind = "ok"
         THEN [status |-> "returned", text |-> outcome.text]
         ELSE RecommendationExcept
    ELSE [status |-> "returned", text |-> HighTemplate(analysis.focus_area)]

\* line 292: the request made, if any
ServiceCalls(key, prompt, outcome) ==
    IF key # ""
    THEN <<[call |-> "messages.create", target |-> "claude-3-haiku-20240307", timeout |-> 0,
            request |-> prompt,
            reply |-> [kind |-> outcome.kind, status |-> 0, text |-> outcome.text]]>>
    ELSE <<>>

(***************************************************************************)
(* _create_charts (lines 306-354).                                         *)
(***************************************************************************)
\* pd.cut with right=False: bins closed below.
RiskBucketLeftClosed(x) ==
    IF RLe(<<0, 1>>, x) /\ RLt(x, <<3, 10>>) THEN "Low"
    ELSE IF RLe(<<3, 10>>, x) /\ RLt(x, <<6, 10>>) THEN "Medium"
    ELSE IF RLe(<<6, 10>>, x) /\ RLt(x, <<1, 1>>) THEN "High"
    ELSE "NaN"

\* line 312: pd.cut(x, bins=[0, 0.3, 0.6, 1.0], labels=['Low', 'Medium', 'High']);
\* a value in no bin is NaN and is counted nowhere.
RiskBucket(x) ==
    IF RLt(<<0, 1>>, x) /\ RLe(x, <<3, 10>>) THEN "Low"
    ELSE IF RLt(<<3, 10>>, x) /\ RLe(x, <<6, 10>>) THEN "Medium"
    ELSE IF RLt(<<6, 10>>, x) /\ RLe(x, <<1, 1>>) THEN "High"
    ELSE "NaN"

CountBucket(df, label) ==
    Cardinality({i \in 1..Len(df.rows) : RiskBucket(df.rows[i]["Overall_Risk"].v) = label})

\* lines 311-327
RiskPie(df) ==
    IF "Overall_Risk" \in df.cols
    THEN [title |-> "Supply Chain Risk Distribution (Real Data)",
          Low |-> CountBucket(df, "Low"), Medium |-> CountBucket(df, "Medium"),
          High |-> CountBucket(df, "High")]
    ELSE [title |-> "Supply Chain Risk Distribution", Low |-> 70, Medium |-> 25, High |-> 5]

\* The supplier names of the model in the order groupby sorts them.
SupplierOrder ==
    <<"AsiaTech", "EliteElectronics", "EliteParts USA", "EuroParts", "Generic Supplier",
      "Global Supplier Network", "GlobalManufacturing", "IndustrialParts Inc",
      "SoftwareSolutions", "TechCorp Global", "TechCorp Mexico", "Unknown Supplier">>

GroupMean(df, name) ==
    LET rows == SelectSeq(df.rows, LAMBDA r : r["Supplier"].s = name)
    IN  [Supplier |-> name, Overall_Risk |-> MeanCol(rows, "Overall_Risk")]

\* lines 330-352
SupplierBar(df) ==
    IF "Supplier" \in df.cols /\ "Overall_Risk" \in df.cols
    THEN LET present == SelectSeq(SupplierOrder,
                            LAMBDA n : \E i \in 1..Len(df.rows) : df.rows[i]["Supplier"].s = n)
             supplier_stats == [k \in 1..Len(present) |-> GroupMean(df, present[k])]
         IN  [title |-> "Supplier Risk Analysis (Real Data)",
              bars |-> HeadRows(supplier_stats, TopSuppliers)]
    ELSE [title |-> "Supplier Risk Analysis",
          bars |-> <<[Supplier |-> "TechCorp", Overall_Risk |-> Num(3, 10)],
                     [Supplier |-> "EliteParts", Overall_Risk |-> Num(4, 10)],
                     [Supplier |-> "GlobalMfg", Overall_Risk |-> Num(2, 10)],
                     [Supplier |-> "AsiaTech", Overall_Risk |-> Num(6, 10)],
                     [Supplier |-> "EuroParts", Overall_Risk |-> Num(35, 100)]>>]

CreateCharts(df) == [risk_pie |-> RiskPie(df), supplier_bar |-> SupplierBar(df)]

NoCharts ==
    [risk_pie |-> [title |-> "", Low |-> 0, Medium |-> 0, High |-> 0],
     supplier_bar |-> [title |-> "", bars |-> <<>>]]

(***************************************************************************)
(* analyze_situation (lines 209-223): what the call gives its caller and   *)
(* the network requests it makes.                                          *)
(***************************************************************************)
\* The guard of line 211 left out.
DataMissingNever(df) == FALSE

\* line 211
DataMissing(df) == df.isNone

AnalyzeSituation(df, manual, key, query, language, outcome) ==
    LET call == [op |-> "analyze_situation", query |-> query, language |-> language]
        raises == AnalyzeDataRaises(df)
        none == [status |-> "returned", exc |-> "", stage |-> "",
                 keys |-> {"error"}, error |-> "No supply data loaded",
                 recommendation |-> <<>>, analysis |-> NoAnalysis, charts |-> NoCharts]
    IN  IF DataMissing(df)
        THEN [result |-> call @@ none, netlog |-> <<>>]
        ELSE IF raises # ""
        THEN [result |-> call @@ [none EXCEPT !.status = "raised",
                                              !.exc = raises,
                                              !.stage = "_analyze_data",
                                              !.keys = {}, !.error = ""],
              netlog |-> <<>>]
        ELSE LET analysis == AnalyzeData(df, query)
                 prompt == BuildPrompt(query, analysis, language, manual)
                 rec == GetAiRecommendation(key, analysis, outcome)
                 calls == ServiceCalls(key, prompt, outcome)
             IN  IF rec.status = "raised"
                 THEN [result |-> call @@ [none EXCEPT !.status = "raised",
                                                       !.exc = "APIError",
                                                       !.stage = "_get_ai_recommendation",
                                                       !.keys = {}, !.error = ""],
                       netlog |-> calls]
                 ELSE [result |-> call @@
                          [status |-> "returned", exc |-> "", stage |-> "",
                           keys |-> {"recommendation", "analysis", "charts", "error"},
                           error |-> "False",
                           recommendation |-> rec.text,
                           analysis |-> analysis,
                           charts |-> CreateCharts(df)],
                       netlog |-> calls]

\* A chart step that stores its buckets in a column of the shared table.
AnalyzeLeavesBucketed(df, manual) ==
    [supply_data |-> [df EXCEPT !.cols = @ \cup {"Risk_Level"}], manual_text |-> manual]

\* What a call leaves in self.supply_data and self.manual_text: lines 209-258
\* and 260-354 read both and assign neither; the tables they filter, group
\* and cut (lines 230-240, 312, 331) are new objects.
AnalyzeLeaves(df, manual) == [supply_data |-> df, manual_text |-> manual]

(***************************************************************************)
(* load_supply_data (lines 18-137).                                        *)
(***************************************************************************)
\* The record of one requests.get: raised is the exception the attempt that
\* made it ended with, "" when the attempt installed its table.
Get(target, timeout, resp, raised) ==
    [call |-> "GET", target |-> target, timeout |-> timeout, request |-> NoPrompt,
     reply |-> [kind |-> resp.kind, status |-> resp.status, text |-> <<>>],
     raised |-> raised]

\* requests.get and pd.read_csv: the exception raised, "" when none is
FetchError(resp, unavailable) ==
    CASE resp.kind = "network_error" -> "ConnectionError"
      [] resp.kind = "timeout"       -> "Timeout"
      [] resp.status # 200           -> unavailable
      [] ~resp.parsable              -> "ParserError"
      [] OTHER                       -> ""

\* lines 28-34: the exception the attempt on source A raises, "" when it
\* installs the table
FetchAError(respA) == FetchError(respA, "Primary dataset not available")

\* lines 40-124: the exception the attempt on source B raises, "" when it
\* installs the table
FetchBError(respB) ==
    IF FetchError(respB, "DataCo dataset not available") # ""
    THEN FetchError(respB, "DataCo dataset not available")
    ELSE IF "Product Name" \notin SchemaCols(respB.body.schema)
    THEN "Dataset structure not compatible"
    ELSE IF ProcessingRaises(Body(respB.body.schema, respB.body.n)) THEN "TypeError"
    ELSE ""

\* An attempt on source A that is never taken as a success.
FetchAOkNever(respA) == FALSE

FetchAOk(respA) == FetchAError(respA) = ""
FetchBOk(respB) == FetchBError(respB) = ""

\* The handler of lines 126-129 without its call of _create_synthetic_data.
OnRealDataFailureSkipped(held) == held

\* lines 126-129: the handler of a failed attempt on source B leaves the
\* synthetic table in supply_data
OnRealDataFailure(held) == SyntheticData

\* line 137: len(self.supply_data)
LoadReturn(data, use_real_data) ==
    [op |-> "load_supply_data", use_real_data |-> use_real_data,
     status |-> IF data.isNone THEN "raised" ELSE "returned",
     exc |-> IF data.isNone THEN "TypeError" ELSE "",
     ret |-> IF data.isNone THEN 0 ELSE Len(data.rows)]

(***************************************************************************)
(* The state machine: one SupplyChainAI object (line 357) and the calls    *)
(* made on it.  result is what the last call gave its caller, netlog the   *)
(* network requests that call made, branch the cascade branch that         *)
(* installed supply_data, pc the place a load_supply_data call in progress *)
(* has reached in its cascade ("idle": no call is in progress; "render":   *)
(* analyze_situation has returned and its caller is showing the result).   *)
(***************************************************************************)
ApiKeys == {"", "sk-ant-key"}

\* The manual texts: the empty one and one longer than ManualCut.
LongManual == [i \in 1..(ManualCut + 1) |-> IF i % 2 = 1 THEN "a" ELSE "b"]
ManualTexts == {<<>>, LongManual}

NoResult == [op |-> "none", status |-> "returned", exc |-> ""]

\* lines 12-16
Init ==
    /\ api_key \in ApiKeys
    /\ supply_data = NoData
    /\ manual_text = <<>>
    /\ branch = "none"
    /\ pc = "idle"
    /\ result = NoResult
    /\ netlog = <<>>

\* lines 18-20 and 134-135: the call begins; without use_real_data it is
\* _create_synthetic_data and the return
LoadBegin ==
    \E use_real_data \in BOOLEAN :
        /\ pc = "idle"
        /\ netlog' = <<>>
        /\ IF use_real_data
           THEN /\ pc' = "try_A"
                /\ result' = [op |-> "load_supply_data", use_real_data |-> TRUE,
                           status |-> "running", exc |-> ""]
                /\ UNCHANGED <<supply_data, branch>>
           ELSE /\ pc' = "idle"
                /\ supply_data' = SyntheticData
                /\ branch' = "synthetic"
                /\ result' = LoadReturn(SyntheticData, FALSE)
        /\ UNCHANGED <<api_key, manual_text>>

\* lines 28-35: the attempt on source A
TryA ==
    \E respA \in Responses :
        /\ pc = "try_A"
        /\ netlog' = Append(netlog, Get("source_A", 10, respA, FetchAError(respA)))
        /\ IF FetchAOk(respA)
           THEN /\ supply_data' = Body(respA.body.schema, respA.body.n)
                /\ branch' = "A"
                /\ result' = LoadReturn(supply_data', TRUE)
                /\ pc' = "idle"
           ELSE /\ pc' = "try_B"
                /\ UNCHANGED <<supply_data, branch, result>>
        /\ UNCHANGED <<api_key, manual_text>>

\* lines 36-129: the attempt on source B and, when it fails, the fallback
TryB ==
    \E respB \in Responses :
    \E r \in IF FetchBOk(respB) THEN 0..(RngStreams - 1) ELSE {0} :
        /\ pc = "try_B"
        /\ netlog' = Append(netlog, Get("source_B", 15, respB, FetchBError(respB)))
        /\ supply_data' = IF FetchBOk(respB)
                          THEN ProcessDataCo(Body(respB.body.schema, respB.body.n), r)
                          ELSE OnRealDataFailure(supply_data)
        /\ branch' = IF FetchBOk(respB) THEN "B"
                     ELSE IF supply_data'.isNone THEN branch ELSE "synthetic"
        /\ result' = LoadReturn(supply_data', TRUE)
        /\ pc' = "idle"
        /\ UNCHANGED <<api_key, manual_text>>

\* lines 172-174
LoadManual ==
    \E text_content \in ManualTexts :
        /\ pc = "idle"
        /\ manual_text' = text_content
        /\ result' = [op |-> "load_manual", status |-> "returned", exc |-> ""]
        /\ netlog' = <<>>
        /\ UNCHANGED <<api_key, supply_data, branch, pc>>

AnalyzeSituationCall ==
    \E query \in Queries, language \in Languages :
    \E outcome \in IF api_key # "" /\ ~supply_data.isNone /\ AnalyzeDataRaises(supply_data) = ""
                   THEN ServiceOutcomes ELSE {NotCalled} :
        LET out == AnalyzeSituation(supply_data, manual_text, api_key, query, language, outcome)
        IN  /\ pc = "idle"
            /\ pc' = "render"
            /\ result' = out.result
            /\ netlog' = out.netlog
            /\ supply_data' = AnalyzeLeaves(supply_data, manual_text).supply_data
            /\ manual_text' = AnalyzeLeaves(supply_data, manual_text).manual_text
            /\ UNCHANGED <<api_key, branch>>

\* app.py, lines 172-212: the caller shows what analyze_situation gave it
\* and keeps nothing of it
ShowResult ==
    /\ pc = "render"
    /\ pc' = "idle"
    /\ result' = NoResult
    /\ netlog' = <<>>
    /\ UNCHANGED <<api_key, supply_data, manual_text, branch>>

Next == LoadBegin \/ TryA \/ TryB \/ LoadManual \/ AnalyzeSituationCall \/ ShowResult

Spec == Init /\ [][Next]_vars

(***************************************************************************)
(* Properties.                                                             *)
(***************************************************************************)
LoadReturned == result.op = "load_supply_data" /\ result.status # "running"

AnalyzeReturned ==
    /\ result.op = "analyze_situation"
    /\ result.status = "returned"
    /\ result.error = "False"

\* Overall_Risk and Stock_Risk of record i of the held Dataset
OverallAt(i) == supply_data.rows[i]["Overall_Risk"].v
StockAt(i) == supply_data.rows[i]["Stock_Risk"].v
Records == 1..Len(supply_data.rows)

\* C1: after load_supply_data returns, the held Dataset has at least 1 and
\* at most 200 records, whichever cascade branch produced it.
C1_DatasetSizeBounded ==
    LoadReturned =>
        /\ ~supply_data.isNone
        /\ Len(supply_data.rows) >= 1
        /\ Len(supply_data.rows) <= 200

\* C2: after any load, in every cascade branch, every record carries the
\* four risk fields, computed by the risk model from its raw fields, with
\* Overall_Risk the mean of the three others.
C2_RiskFieldsComputed ==
    (LoadReturned /\ ~supply_data.isNone) =>
        /\ RiskCols \subseteq supply_data.cols
        /\ {"Current_Stock", "Min_Stock", "Lead_Time_Days", "Quality_Rating"}
              \subseteq supply_data.cols
        /\ \A i \in 1..Len(supply_data.rows) :
              LET row == supply_data.rows[i]
              IN  /\ row["Stock_Risk"].v =
                        StockRisk(row["Current_Stock"].v, row["Min_Stock"].v)
                  /\ row["Lead_Time_Risk"].v =
                        LeadTimeRisk(row["Lead_Time_Days"].v,
                                     IF branch = "synthetic" THEN 40 ELSE 25)
                  /\ row["Quality_Risk"].v = QualityRisk(row["Quality_Rating"].v)
                  /\ RMul(row["Overall_Risk"].v, RInt(3)) =
                        RAdd(RAdd(row["Stock_Risk"].v, row["Lead_Time_Risk"].v),
                             row["Quality_Risk"].v)

\* C3: once a load has completed, every analyze_situation call returns a
\* result with error = false holding recommendation, analysis and charts; it
\* never raises and never returns an error value.
C3_AnalyzeSucceedsOnceLoaded ==
    (result.op = "analyze_situation" /\ ~supply_data.isNone) =>
        /\ result.status = "returned"
        /\ result.error = "False"
        /\ result.keys = {"recommendation", "analysis", "charts", "error"}

\* C4: the recommendation is fixed by the credential and the outcome of the
\* service: without a credential no request is made and the text is the
\* High-priority template holding the focus area; with a credential and a
\* request that raises, the Medium-priority template; with a credential and
\* a request that succeeds, the text of the service, unmodified.
C4_RecommendationTiers ==
    AnalyzeReturned =>
        IF api_key = ""
        THEN /\ netlog = <<>>
             /\ Len(result.recommendation) = 6
             /\ result.recommendation[1] = "**RECOMMENDATION:** Address "
             /\ result.recommendation[2] = result.analysis.focus_area
             /\ result.recommendation[4] = "\n**PRIORITY:** High"
        ELSE /\ Len(netlog) = 1
             /\ netlog[1].call = "messages.create"
             /\ IF netlog[1].reply.kind = "ok"
                THEN result.recommendation = netlog[1].reply.text
                ELSE /\ Len(result.recommendation) = 4
                     /\ result.recommendation[1] =
                           "**RECOMMENDATION:** Review supplier performance data"
                     /\ result.recommendation[2] = "\n**PRIORITY:** Medium"

C4_Witness ==
    /\ AnalyzeReturned
    /\ api_key # ""
    /\ Len(netlog) = 1
    /\ netlog[1].reply.kind = "raises"
    /\ result.recommendation = MediumTemplate

\* C5 as stated: the recommendation is a non-empty string for every outcome
\* of the service.
C5_RecommendationNonEmpty ==
    AnalyzeReturned => result.recommendation # <<>>

\* C5, amended: _get_ai_recommendation never raises, and the string it
\* returns is empty exactly when a credential is configured and the service
\* succeeds with an empty text.
C5_RecommendationNeverRaises ==
    result.op = "analyze_situation" =>
        /\ result.stage # "_get_ai_recommendation"
        /\ AnalyzeReturned =>
              (result.recommendation = <<>>
                  <=> /\ api_key # ""
                      /\ Len(netlog) = 1
                      /\ netlog[1].reply.kind = "ok"
                      /\ netlog[1].reply.text = <<>>)

C5_Witness ==
    /\ AnalyzeReturned
    /\ Len(netlog) = 1
    /\ netlog[1].reply.kind = "malformed"
    /\ result.recommendation # <<>>

\* C6: load_supply_data never raises: for every outcome of source A and of
\* source B it returns with a Dataset assigned.
C6_LoadNeverRaises ==
    LoadReturned =>
        /\ result.status = "returned"
        /\ ~supply_data.isNone
        /\ result.ret = Len(supply_data.rows)

C6_Witness ==
    /\ LoadReturned
    /\ result.status = "returned"
    /\ Len(netlog) = 2
    /\ netlog[1].reply.kind = "timeout"
    /\ netlog[2].reply.status = 200
    /\ branch = "synthetic"

\* C7: analyze_situation with no Dataset loaded returns exactly
\* {error: "No supply data loaded"} and makes no network request.
C7_NoDataLoaded ==
    (result.op = "analyze_situation" /\ supply_data.isNone) =>
        /\ result.status = "returned"
        /\ result.keys = {"error"}
        /\ result.error = "No supply data loaded"
        /\ netlog = <<>>

C7_Witness ==
    /\ result.op = "analyze_situation"
    /\ supply_data.isNone
    /\ api_key # ""
    /\ result.error = "No supply data loaded"

C9_FocusPriority ==
    AnalyzeReturned =>
        LET has(kw) == Contains(Lower(result.query), kw)
            focus == result.analysis.focus_area
        IN  /\ (has(KwStock) \/ has(KwInventory)) => focus = "Stock Levels"
            /\ (~has(KwStock) /\ ~has(KwInventory) /\ has(KwQuality))
                  => focus = "Quality Issues"
            /\ (~has(KwStock) /\ ~has(KwInventory) /\ ~has(KwQuality)
                  /\ (has(KwDelay) \/ has(KwLeadTime))) => focus = "Lead Time Issues"
            /\ (~has(KwStock) /\ ~has(KwInventory) /\ ~has(KwQuality)
                  /\ ~has(KwDelay) /\ ~has(KwLeadTime)) => focus = "Overall Risk"
            /\ result.query = Q_StockQuality => focus = "Stock Levels"
            /\ result.query = Q_InventoryDelay => focus = "Stock Levels"
            /\ result.query = Q_QualityLeadTime => focus = "Quality Issues"
            /\ result.query \in {Q_Delay, Q_LeadTime} => focus = "Lead Time Issues"
            /\ result.query \in {Q_LeadDashTime, Q_Other} => focus = "Overall Risk"

C9_Witness ==
    /\ AnalyzeReturned
    /\ result.query = Q_StockQuality
    /\ result.analysis.focus_area = "Stock Levels"

\* C10: high_risk_count and critical_stock_count are counted over the whole
\* Dataset (Overall_Risk > 0.6, Stock_Risk > 0.5), whatever the query and
\* the focus branch it matches.
C10_CountsOverFullDataset ==
    AnalyzeReturned =>
        /\ result.analysis.high_risk_count =
              Cardinality({i \in Records : RLt(<<6, 10>>, OverallAt(i))})
        /\ result.analysis.critical_stock_count =
              IF "Stock_Risk" \in supply_data.cols
              THEN Cardinality({i \in Records : RLt(<<1, 2>>, StockAt(i))})
              ELSE 0

C10_Witness ==
    /\ AnalyzeReturned
    /\ result.analysis.focus_area = "Quality Issues"
    /\ result.analysis.high_risk_count > 0
    /\ result.analysis.critical_stock_count > 0
    /\ Len(result.analysis.focus_items) = 5
    /\ result.analysis.critical_stock_count # result.analysis.high_risk_count

\* C11: in the source-B branch and in the synthetic branch Stock_Risk is
\* (Min_Stock - Current_Stock) / Min_Stock when Current_Stock < Min_Stock and
\* 0 otherwise; a record with Min_Stock = 0 and Current_Stock >= 0 has
\* Stock_Risk = 0, and the load that holds it was not diverted by a fault.
C11_StockRiskGuarded ==
    (LoadReturned /\ branch \in {"B", "synthetic"}) =>
        \A i \in Records :
            LET cur  == supply_data.rows[i]["Current_Stock"].v
                min  == supply_data.rows[i]["Min_Stock"].v
                risk == supply_data.rows[i]["Stock_Risk"].v
            IN  /\ RLt(cur, min) => RMul(risk, min) = RSub(min, cur)
                /\ ~RLt(cur, min) => risk = <<0, 1>>
                /\ (min = <<0, 1>> /\ RLe(<<0, 1>>, cur)) => risk = <<0, 1>>

C11_Witness ==
    /\ LoadReturned
    /\ branch = "B"
    /\ result.status = "returned"
    /\ \E i \in Records :
          /\ supply_data.rows[i]["Current_Stock"].v = <<0, 1>>
          /\ supply_data.rows[i]["Min_Stock"].v = <<0, 1>>
          /\ supply_data.rows[i]["Stock_Risk"].v = <<0, 1>>

C13_SyntheticOnTotalFailure ==
    (/\ LoadReturned
     /\ result.use_real_data
     /\ Len(netlog) = 2
     /\ netlog[1].raised # ""
     /\ netlog[2].raised # "") =>
        /\ result.status = "returned"
        /\ result.ret = 200
        /\ Len(supply_data.rows) = 200
        /\ supply_data.cols = RawCols \cup RiskCols
        /\ \A i \in Records :
              LET row == supply_data.rows[i]
              IN  /\ DOMAIN row = RawCols \cup RiskCols
                  /\ \A c \in {"Supplier", "Product", "Location", "Last_Delivery"} :
                        row[c].t = "str"
                  /\ \A c \in (RawCols \cup RiskCols)
                               \ {"Supplier", "Product", "Location", "Last_Delivery"} :
                        row[c].t = "num"
                  /\ \E k \in 1..Len(suppliers) : row["Supplier"].s = suppliers[k]
                  /\ \E k \in 1..Len(products) : row["Product"].s = products[k]
                  /\ \E k \in 1..Len(locations) : row["Location"].s = locations[k]
                  /\ RLe(<<10, 1>>, row["Current_Stock"].v)
                  /\ RLt(row["Current_Stock"].v, <<500, 1>>)
                  /\ RLe(<<50, 1>>, row["Min_Stock"].v)
                  /\ RLt(row["Min_Stock"].v, <<200, 1>>)
                  /\ RLe(<<5, 1>>, row["Lead_Time_Days"].v)
                  /\ RLt(row["Lead_Time_Days"].v, <<45, 1>>)
                  /\ RLe(<<3, 1>>, row["Quality_Rating"].v)
                  /\ RLe(row["Quality_Rating"].v, <<5, 1>>)
                  /\ RMul(row["Lead_Time_Risk"].v, <<40, 1>>) =
                        RSub(row["Lead_Time_Days"].v, <<5, 1>>)
                  /\ RMul(row["Quality_Risk"].v, <<2, 1>>) =
                        RSub(<<5, 1>>, row["Quality_Rating"].v)
                  /\ RMul(row["Overall_Risk"].v, <<3, 1>>) =
                        RAdd(RAdd(row["Stock_Risk"].v, row["Lead_Time_Risk"].v),
                             row["Quality_Risk"].v)
        /\ supply_data = SyntheticData

C13_Witness ==
    /\ LoadReturned
    /\ result.use_real_data
    /\ Len(netlog) = 2
    /\ netlog[1].raised = "Timeout"
    /\ netlog[2].raised = "Dataset structure not compatible"
    /\ Len(supply_data.rows) = 200
    /\ RiskCols \subseteq supply_data.cols

\* C14: analyze_situation leaves the held Dataset and the held manual as
\* they are, for every query, language and outcome of the service: the
\* Dataset changes only in a step of load_supply_data and the manual only in
\* a step of load_manual.
C14_AnalyzeLeavesSharedState ==
    [][/\ (supply_data' # supply_data => result'.op = "load_supply_data")
       /\ (manual_text' # manual_text => result'.op = "load_manual")
       /\ (result'.op = "analyze_situation" =>
              supply_data' = supply_data /\ manual_text' = manual_text)]_vars

C14_Witness ==
    /\ AnalyzeReturned
    /\ pc = "render"
    /\ branch = "B"
    /\ Len(supply_data.rows) > 0
    /\ manual_text = LongManual
    /\ Len(netlog) = 1
    /\ netlog[1].call = "messages.create"

\* C15: in a Dataset loaded from source B Min_Stock is 0.3 x Current_Stock,
\* so a record with Current_Stock >= 0 has Stock_Risk = 0 and no record has
\* Stock_Risk > 0.5; critical_stock_count is 0, and a query on stock or
\* inventory takes its focus items from the records with Overall_Risk > 0.6,
\* the first 5 of them at most.
C15_SourceBStockFocus ==
    /\ (LoadReturned /\ branch = "B") =>
          \A i \in Records :
              LET cur == supply_data.rows[i]["Current_Stock"].v
                  min == supply_data.rows[i]["Min_Stock"].v
              IN  /\ RMul(min, <<10, 1>>) = RMul(cur, <<3, 1>>)
                  /\ RLe(<<0, 1>>, cur) => StockAt(i) = <<0, 1>>
                  /\ RLe(StockAt(i), <<1, 2>>)
    /\ (AnalyzeReturned /\ branch = "B") =>
          LET items == result.analysis.focus_items
              nHigh == Cardinality({i \in Records : RLt(<<6, 10>>, OverallAt(i))})
          IN  /\ result.analysis.critical_stock_count = 0
              /\ result.analysis.focus_area = "Stock Levels" =>
                    /\ Len(items) = IF nHigh < 5 THEN nHigh ELSE 5
                    /\ \A k \in 1..Len(items) :
                          RLt(<<6, 10>>, items[k]["Overall_Risk"].v)

C15_Witness ==
    /\ AnalyzeReturned
    /\ branch = "B"
    /\ result.query = Q_InventoryDelay
    /\ result.analysis.focus_area = "Stock Levels"
    /\ result.analysis.critical_stock_count = 0
    /\ result.analysis.high_risk_count > 5
    /\ Len(result.analysis.focus_items) = 5

====
